---- MODULE Spec2Model ----
(***************************************************************************)
(* A model of internal/vault/vault.go: the Vault-backed key store of kes. *)
(*                                                                         *)
(* The Vault server is one shared object (its K/V entries and its sealed   *)
(* status).  Each Store holds its client, the client's token and the       *)
(* sealed flag, and Authenticate starts, per successful call, one          *)
(* checkStatus goroutine and one renewAuthToken goroutine.  Every store    *)
(* has one caller issuing Get, Create and Delete.                          *)
(*                                                                         *)
(* s.sealed is a plain bool written by checkStatus / Authenticate and read *)
(* by the key operations and by renewAuthToken without synchronisation.    *)
(* Each read and each write of it is one step of the model, so every       *)
(* order in which the racing accesses can take effect is explored.         *)
(***************************************************************************)
EXTENDS Integers, Sequences, FiniteSets, TLC

\* ------------------------------------------------------------- bounds

\* Largest lease_duration (seconds) the Vault server answers with.
MaxLease == 3

\* ---------------------------------------------------------- constants

\* Durations are counted in milliseconds.
Second == 1000

\* The store instances; both are configured with the same Addr and Location.
Stores == {"s1", "s2"}
\* The store whose whole life (Authenticate, goroutines, cancellation) Spec follows.
Main == {"s1"}
\* The goroutine pairs a store starts, one per Authenticate call that returns nil.
Gens == {1, 2}

Keys == {"k1", "k2"}
Values == {"v1", "v2"}
Tokens == {"t1", "t2"}
\* lease_duration values (seconds) the Vault server answers with.
LeaseSecs == {0, MaxLease - 1, MaxLease}
\* AppRole.Retry values a store may be configured with.
RetryChoices == {0, 3000}

NoToken == ""

VARIABLES
    kv,          \* Vault K/V: path -> entry or Absent
    vaultSealed, \* the Vault server is sealed
    client,      \* s.client != nil
    sealed,      \* s.sealed
    token,       \* the token held by s.client
    retry,       \* s.AppRole.Retry
    apc,         \* where the caller of Authenticate is
    authHist,    \* how far the store's Authenticate calls ever got
    started,     \* goroutine pairs started so far
    cancelled,   \* ctx.Done() of the context each pair was started with
    mpc,         \* checkStatus: position
    epc,         \* renewAuthToken: position
    ttl,         \* renewAuthToken: its variable ttl (function scope)
    timer,       \* renewAuthToken: duration the pending timer was armed with
    lease,       \* TTL of the lease last handed to renewAuthToken
    lastAuth,    \* last Login / RenewSelf call of the goroutine and its outcome
    status,      \* checkStatus: the answer to its last Health call
    mseen,       \* ctx was done when the last Health call of checkStatus returned
    eseen,       \* ctx was done when the last call of renewAuthToken returned
    pc,          \* key operation: position of the caller
    cur,         \* key operation: operation, key and value of the call
    res,         \* key operation: what the last call returned
    resp,        \* key operation: last answer of the Vault client
    calls,       \* key operation: Vault requests issued by the call
    raced,       \* Create: another write reached the path after this call's read
    created      \* last entry the caller created that nobody has deleted since

vars == <<kv, vaultSealed, client, sealed, token, retry, apc, authHist, started,
          cancelled, mpc, epc, ttl, timer, lease, lastAuth, status, mseen, eseen,
          pc, cur, res, resp, calls, raced, created>>

storeVars == <<client, sealed, token, retry, apc, authHist, started>>
bgVars == <<cancelled, mpc, epc, ttl, timer, lease, lastAuth, status, mseen, eseen>>
opVars == <<pc, cur, res, resp, calls, raced, created>>

\* ------------------------------------------------------------ helpers

\* location := fmt.Sprintf("/kv/%s/%s", s.Location, key)
Location(s) == "keys"
Path(s, key) == <<Location(s), key>>
Paths == {Path(s, k) : s \in Stores, k \in Keys}

\* Entry with the value stored under a fixed field name.
EntryFixedField(key, value) == [present |-> TRUE, name |-> "value", value |-> value]

\* map[string]interface{}{key: value}: the data of the secret stored at a path.
Entry(key, value) == [present |-> TRUE, name |-> key, value |-> value]
\* No entry at the path: the client returns a nil secret.
Absent == [present |-> FALSE, name |-> "", value |-> ""]

NoneOp == [op |-> "none", key |-> "", val |-> ""]
NoRes == [err |-> "none", val |-> ""]
Ret(e, v) == [err |-> e, val |-> v]
NoCreated == [key |-> "", val |-> "", clean |-> TRUE]

\* ------------------------------------------------- the Vault client

\* s.client.Logical().Read(location): (nil, err), (nil, nil) or (secret, nil).
\* A sealed Vault answers every request with an error; any request may fail
\* in transport.
ReadAnswers(p) ==
    IF vaultSealed THEN {[err |-> TRUE, secret |-> Absent]}
    ELSE {[err |-> TRUE, secret |-> Absent], [err |-> FALSE, secret |-> kv[p]]}

\* Logical().Write(location, data) and Logical().Delete(location): an error,
\* or no error and no secret (204 No Content, whether or not the entry existed).
WriteAnswers ==
    IF vaultSealed THEN {[err |-> TRUE, secret |-> Absent]}
    ELSE {[err |-> TRUE, secret |-> Absent], [err |-> FALSE, secret |-> Absent]}

\* The shape of an answer: an error, a secret, or neither.
AnswerKind(a) ==
    IF a.err THEN "error" ELSE IF a.secret.present THEN "secret" ELSE "nil"

\* Sys().Health(): err, or the status with its Sealed field.
HealthAnswers == {"error", IF vaultSealed THEN "sealed" ELSE "unsealed"}

\* Logical().Write("auth/approle/login", ...): err, (nil, nil), or a secret.
LoginAnswers ==
    IF vaultSealed THEN {[kind |-> "error"]}
    ELSE {[kind |-> "error"], [kind |-> "nil"]}
         \cup {[kind |-> "secret", token |-> tk, secs |-> n] :
                   tk \in Tokens, n \in LeaseSecs}

\* Auth().Token().RenewSelf(increment): err, (nil, nil), or a secret.
RenewAnswers ==
    IF vaultSealed THEN {[kind |-> "error"]}
    ELSE {[kind |-> "error"], [kind |-> "nil"]}
         \cup {[kind |-> "secret", renewable |-> b, secs |-> n] :
                   b \in BOOLEAN, n \in LeaseSecs}

\* secret.TokenTTL(): the lease duration in seconds as a time.Duration.
TokenTTL(secs) == secs * Second
\* int(ttl.Seconds())
Seconds(d) == d \div Second
\* ttl / 2
Half(d) == d \div 2

\* ---------------------------------------------------------------- Init

Init ==
    /\ kv = [p \in Paths |-> Absent]
    /\ vaultSealed \in BOOLEAN
    /\ client = [s \in Stores |-> FALSE]
    /\ sealed = [s \in Stores |-> FALSE]
    /\ token = [s \in Stores |-> NoToken]
    /\ retry \in {r \in [Stores -> RetryChoices] : \A s \in Stores \ Main : r[s] = 0}
    /\ apc = [s \in Stores |-> "idle"]
    /\ authHist = [s \in Stores |-> "never"]
    /\ started = [s \in Stores |-> 0]
    /\ cancelled = [s \in Stores |-> [g \in Gens |-> FALSE]]
    /\ mpc = [s \in Stores |-> [g \in Gens |-> "off"]]
    /\ epc = [s \in Stores |-> [g \in Gens |-> "off"]]
    /\ ttl = [s \in Stores |-> [g \in Gens |-> 0]]
    /\ timer = [s \in Stores |-> [g \in Gens |-> 0]]
    /\ lease = [s \in Stores |-> [g \in Gens |-> 0]]
    /\ lastAuth = [s \in Stores |-> [g \in Gens |-> "none"]]
    /\ status = [s \in Stores |-> [g \in Gens |-> "none"]]
    /\ mseen = [s \in Stores |-> [g \in Gens |-> FALSE]]
    /\ eseen = [s \in Stores |-> [g \in Gens |-> FALSE]]
    /\ pc = [s \in Stores |-> "idle"]
    /\ cur = [s \in Stores |-> NoneOp]
    /\ res = [s \in Stores |-> NoRes]
    /\ resp = [s \in Stores |-> "none"]
    /\ calls = [s \in Stores |-> 0]
    /\ raced = [s \in Stores |-> FALSE]
    /\ created = [s \in Stores |-> NoCreated]

\* ------------------------------------------------------ key operations

\* Precheck without the test of s.sealed.
PrecheckNoSealed(hasClient, isSealed) ==
    IF ~hasClient THEN "NotConnected" ELSE "go"

\* Precheck without the test of s.client.
PrecheckNoClient(hasClient, isSealed) ==
    IF isSealed THEN "Sealed" ELSE "go"

\* The two checks every key operation starts with: s.client == nil, then
\* s.sealed.
Precheck(hasClient, isSealed) ==
    IF ~hasClient THEN "NotConnected"
    ELSE IF isSealed THEN "Sealed"
    ELSE "go"

\* A caller enters Get, Create or Delete and evaluates the two checks.
Invoke(s, op, k, v, first) ==
    /\ pc[s] = "idle"
    /\ resp' = [resp EXCEPT ![s] = "none"]
    /\ calls' = [calls EXCEPT ![s] = 0]
    /\ raced' = [raced EXCEPT ![s] = FALSE]
    /\ LET g == Precheck(client[s], sealed[s]) IN
          IF g = "go"
          THEN /\ pc' = [pc EXCEPT ![s] = first]
               /\ res' = [res EXCEPT ![s] = NoRes]
          ELSE /\ pc' = pc
               /\ res' = [res EXCEPT ![s] = Ret(g, "")]
    /\ cur' = [cur EXCEPT ![s] = [op |-> op, key |-> k, val |-> v]]
    /\ UNCHANGED <<kv, vaultSealed, storeVars, bgVars, created>>

\* The calls, with keys from K and values from V.
Get(s, K) == \E k \in K : Invoke(s, "Get", k, "", "get")

Create(s, K, V) == \E k \in K, v \in V : Invoke(s, "Create", k, v, "cread")

Delete(s, K) == \E k \in K : Invoke(s, "Delete", k, "", "delete")

\* GetResult without the case of the (nil, nil) answer: it returns the nil error.
GetResultNoAbsent(a, key) ==
    IF a.err \/ ~a.secret.present
    THEN IF a.err THEN Ret("Transport", "") ELSE Ret("nil", "")
    ELSE IF a.secret.name # key
         THEN Ret("Malformed", "")
         ELSE Ret("nil", a.secret.value)

\* What Get returns for the client's answer to its read.
GetResult(a, key) ==
    IF a.err \/ ~a.secret.present
    THEN IF ~a.err /\ ~a.secret.present
         THEN Ret("KeyNotFound", "")
         ELSE Ret("Transport", "")
    ELSE IF a.secret.name # key
         THEN Ret("Malformed", "")
         ELSE Ret("nil", a.secret.value)

\* Get: the read of the entry and the return.
GetRead(s) ==
    /\ pc[s] = "get"
    /\ \E a \in ReadAnswers(Path(s, cur[s].key)) :
          /\ res' = [res EXCEPT ![s] = GetResult(a, cur[s].key)]
          /\ resp' = [resp EXCEPT ![s] = AnswerKind(a)]
    /\ calls' = [calls EXCEPT ![s] = calls[s] + 1]
    /\ pc' = [pc EXCEPT ![s] = "idle"]
    /\ UNCHANGED <<kv, vaultSealed, storeVars, bgVars, cur, raced, created>>

\* CreateCheck with the first case testing the error alone.
CreateCheckNoSecret(a) ==
    IF a.err THEN "Transport" ELSE "write"

\* The switch of Create on the answer to its read.
CreateCheck(a) ==
    IF ~a.err /\ a.secret.present THEN "KeyExists"
    ELSE IF a.err THEN "Transport"
    ELSE "write"

\* Create: the read that checks whether the key exists.
CreateRead(s) ==
    /\ pc[s] = "cread"
    /\ \E a \in ReadAnswers(Path(s, cur[s].key)) :
          /\ resp' = [resp EXCEPT ![s] = AnswerKind(a)]
          /\ IF CreateCheck(a) = "write"
             THEN /\ pc' = [pc EXCEPT ![s] = "cwrite"]
                  /\ res' = res
             ELSE /\ pc' = [pc EXCEPT ![s] = "idle"]
                  /\ res' = [res EXCEPT ![s] = Ret(CreateCheck(a), "")]
    /\ calls' = [calls EXCEPT ![s] = calls[s] + 1]
    /\ UNCHANGED <<kv, vaultSealed, storeVars, bgVars, cur, raced, created>>

\* Create: the write of {key: value} and the return.
CreateWrite(s) ==
    /\ pc[s] = "cwrite"
    /\ LET k == cur[s].key
           p == Path(s, k)
       IN \E w \in WriteAnswers :
             /\ resp' = [resp EXCEPT ![s] = AnswerKind(w)]
             /\ IF ~w.err
                THEN /\ kv' = [kv EXCEPT ![p] = Entry(k, cur[s].val)]
                     /\ res' = [res EXCEPT ![s] = Ret("nil", "")]
                     /\ raced' = [u \in Stores |->
                            IF u # s /\ pc[u] = "cwrite" /\ Path(u, cur[u].key) = p
                            THEN TRUE ELSE IF u = s THEN FALSE ELSE raced[u]]
                     /\ created' = [u \in Stores |->
                            IF u = s
                            THEN [key |-> k, val |-> cur[s].val, clean |-> TRUE]
                            ELSE IF Path(u, created[u].key) = p
                                 THEN [created[u] EXCEPT !.clean = FALSE]
                                 ELSE created[u]]
                ELSE /\ kv' = kv
                     /\ res' = [res EXCEPT ![s] = Ret("Transport", "")]
                     /\ raced' = [raced EXCEPT ![s] = FALSE]
                     /\ created' = created
    /\ calls' = [calls EXCEPT ![s] = calls[s] + 1]
    /\ pc' = [pc EXCEPT ![s] = "idle"]
    /\ UNCHANGED <<vaultSealed, storeVars, bgVars, cur>>

\* DeleteResult reading a missing secret as a missing key, as Get does.
DeleteResultLikeGet(w) ==
    IF w.err THEN Ret("Transport", "")
    ELSE IF ~w.secret.present THEN Ret("KeyNotFound", "")
    ELSE Ret("nil", "")

\* What Delete returns for the client's answer: its error, whatever the secret.
DeleteResult(w) == IF w.err THEN Ret("Transport", "") ELSE Ret("nil", "")

\* Delete: the delete request and the return.
DeleteWrite(s) ==
    /\ pc[s] = "delete"
    /\ LET p == Path(s, cur[s].key)
       IN \E w \in WriteAnswers :
             /\ resp' = [resp EXCEPT ![s] = AnswerKind(w)]
             /\ res' = [res EXCEPT ![s] = DeleteResult(w)]
             /\ IF ~w.err
                THEN /\ kv' = [kv EXCEPT ![p] = Absent]
                     /\ created' = [u \in Stores |->
                            IF Path(u, created[u].key) = p
                            THEN NoCreated ELSE created[u]]
                ELSE /\ kv' = kv
                     /\ created' = created
    /\ calls' = [calls EXCEPT ![s] = calls[s] + 1]
    /\ pc' = [pc EXCEPT ![s] = "idle"]
    /\ UNCHANGED <<vaultSealed, storeVars, bgVars, cur, raced>>

\* -------------------------------------------------------- Authenticate

\* How far a store's Authenticate calls got: never called, failed before the
\* client was created, created the client, failed at the health query, failed
\* at the login, returned nil.
AuthRank(h) ==
    CASE h = "never" -> 0
      [] h = "config" -> 1
      [] h = "client" -> 2
      [] h = "health" -> 3
      [] h = "login" -> 4
      [] h = "ok" -> 5

Reached(s, h) ==
    [authHist EXCEPT ![s] = IF AuthRank(h) > AuthRank(@) THEN h ELSE @]

\* Store.authenticate: the login exchange.  A nil secret with a nil error is
\* returned as ("", 0, nil); an error of TokenID or TokenTTL is returned like
\* an error of the request.
authenticate(a) ==
    IF a.kind = "error" THEN [token |-> NoToken, ttl |-> 0, err |-> TRUE]
    ELSE IF a.kind = "nil" THEN [token |-> NoToken, ttl |-> 0, err |-> FALSE]
    ELSE [token |-> a.token, ttl |-> TokenTTL(a.secs), err |-> FALSE]

\* go s.checkStatus(...); go s.renewAuthToken(context, s.AppRole, ttl)
StartGoroutines(s, t) ==
    LET g == started[s] + 1 IN
    /\ started' = [started EXCEPT ![s] = g]
    /\ mpc' = [mpc EXCEPT ![s][g] = "poll"]
    /\ epc' = [epc EXCEPT ![s][g] = "top"]
    /\ ttl' = [ttl EXCEPT ![s][g] = t]
    /\ lease' = [lease EXCEPT ![s][g] = t]

\* Authenticate up to s.client = client: the CA path is checked and the
\* client is built, either of which may fail.
AuthConnect(s) ==
    /\ apc[s] = "idle"
    /\ started[s] + 1 \in Gens
    /\ \E built \in BOOLEAN :
          IF built
          THEN /\ client' = [client EXCEPT ![s] = TRUE]
               /\ apc' = [apc EXCEPT ![s] = "health"]
               /\ authHist' = Reached(s, "client")
          ELSE /\ authHist' = Reached(s, "config")
               /\ UNCHANGED <<client, apc>>
    /\ UNCHANGED <<kv, vaultSealed, sealed, token, retry, started, bgVars, opVars>>

\* Authenticate: the health query; a sealed Vault skips the login.
AuthHealth(s) ==
    /\ apc[s] = "health"
    /\ \E h \in HealthAnswers :
          CASE h = "error" ->
                  /\ apc' = [apc EXCEPT ![s] = "idle"]
                  /\ authHist' = Reached(s, "health")
                  /\ UNCHANGED <<sealed, started, mpc, epc, ttl, lease>>
            [] h = "sealed" ->
                  /\ sealed' = [sealed EXCEPT ![s] = TRUE]
                  /\ StartGoroutines(s, 0)
                  /\ apc' = [apc EXCEPT ![s] = "idle"]
                  /\ authHist' = Reached(s, "ok")
            [] h = "unsealed" ->
                  /\ sealed' = [sealed EXCEPT ![s] = FALSE]
                  /\ apc' = [apc EXCEPT ![s] = "login"]
                  /\ UNCHANGED <<authHist, started, mpc, epc, ttl, lease>>
    /\ UNCHANGED <<kv, vaultSealed, client, token, retry, cancelled, timer,
                   lastAuth, status, mseen, eseen, opVars>>

\* Authenticate: the login, SetToken and the start of the two goroutines.
AuthLogin(s) ==
    /\ apc[s] = "login"
    /\ \E a \in LoginAnswers :
          LET r == authenticate(a) IN
          IF r.err
          THEN /\ authHist' = Reached(s, "login")
               /\ UNCHANGED <<token, started, mpc, epc, ttl, lease>>
          ELSE /\ token' = [token EXCEPT ![s] = r.token]
               /\ StartGoroutines(s, r.ttl)
               /\ authHist' = Reached(s, "ok")
    /\ apc' = [apc EXCEPT ![s] = "idle"]
    /\ UNCHANGED <<kv, vaultSealed, client, sealed, retry, cancelled, timer,
                   lastAuth, status, mseen, eseen, opVars>>

\* ---------------------------------------------------------- environment

\* The Vault server is sealed or unsealed by its operators.
VaultSealChange ==
    /\ vaultSealed' = ~vaultSealed
    /\ UNCHANGED <<kv, storeVars, bgVars, opVars>>

\* The context a goroutine pair was started with is cancelled.
Cancel(s, g) ==
    /\ g <= started[s]
    /\ ~cancelled[s][g]
    /\ cancelled' = [cancelled EXCEPT ![s][g] = TRUE]
    /\ UNCHANGED <<kv, vaultSealed, storeVars, mpc, epc, ttl, timer, lease,
                   lastAuth, status, mseen, eseen, opVars>>

\* ----------------------------------------------------------- checkStatus

\* StatusUpdate that never clears s.sealed.
StatusUpdateSticky(old, h) == old \/ h = "sealed"

\* StatusUpdate taking a failed health query for "not sealed".
StatusUpdateClearOnError(old, h) == h = "sealed"

\* What checkStatus leaves in s.sealed after a health query.
StatusUpdate(old, h) == IF h = "error" THEN old ELSE h = "sealed"

\* The health query at the top of the loop, then the timer is armed.
CheckStatusPoll(s, g) ==
    /\ mpc[s][g] = "poll"
    /\ \E h \in HealthAnswers :
          /\ sealed' = [sealed EXCEPT ![s] = StatusUpdate(@, h)]
          /\ status' = [status EXCEPT ![s][g] = h]
    /\ mpc' = [mpc EXCEPT ![s][g] = "wait"]
    /\ mseen' = [mseen EXCEPT ![s][g] = cancelled[s][g]]
    /\ UNCHANGED <<kv, vaultSealed, client, token, retry, apc, authHist, started,
                   cancelled, epc, ttl, timer, lease, lastAuth, eseen, opVars>>

\* select: <-timer.C
CheckStatusTick(s, g) ==
    /\ mpc[s][g] = "wait"
    /\ mpc' = [mpc EXCEPT ![s][g] = "poll"]
    /\ UNCHANGED <<kv, vaultSealed, storeVars, cancelled, epc, ttl, timer, lease,
                   lastAuth, status, mseen, eseen, opVars>>

\* select: <-ctx.Done()
CheckStatusStop(s, g) ==
    /\ mpc[s][g] = "wait"
    /\ cancelled[s][g]
    /\ mpc' = [mpc EXCEPT ![s][g] = "done"]
    /\ UNCHANGED <<kv, vaultSealed, storeVars, cancelled, epc, ttl, timer, lease,
                   lastAuth, status, mseen, eseen, opVars>>

\* -------------------------------------------------------- renewAuthToken

\* RetryDelay without the default.
RetryDelayNoDefault(r) == r

\* if login.Retry == 0 { login.Retry = 5 * time.Second }
RetryDelay(r) == IF r = 0 THEN 5 * Second ELSE r

\* RenewalDelay at the expiry of the lease.
RenewalDelayAtExpiry(t) == t

\* The duration the renewal timer is armed with for a lease of TTL t.
RenewalDelay(t) == Half(t)

\* What the Vault server answered to RenewSelf.
RenewOutcome(a) ==
    IF a.kind = "error" THEN "renew_err"
    ELSE IF a.kind = "nil" THEN "renew_nil"
    ELSE IF ~a.renewable THEN "renew_norenew"
    ELSE IF TokenTTL(a.secs) = 0 THEN "renew_zero"
    ELSE "renew_ok"

\* RenewBreaks without the test of TokenIsRenewable.
RenewBreaksIgnoreRenewable(a) ==
    \/ a.kind = "error" \/ a.kind = "nil"
    \/ TokenTTL(a.secs) = 0

\* The three breaks of the inner loop: the call failed or returned no secret,
\* the token is not renewable, the new TTL is zero.
RenewBreaks(a) ==
    \/ a.kind = "error" \/ a.kind = "nil"
    \/ ~a.renewable
    \/ TokenTTL(a.secs) = 0

\* for s.sealed { ... }: one evaluation of the loop condition.
RenewCheckSealed(s, g) ==
    /\ epc[s][g] = "top"
    /\ IF sealed[s]
       THEN /\ epc' = [epc EXCEPT ![s][g] = "sealedWait"]
            /\ timer' = [timer EXCEPT ![s][g] = 1 * Second]
       ELSE /\ epc' = [epc EXCEPT ![s][g] = "ready"]
            /\ timer' = timer
    /\ UNCHANGED <<kv, vaultSealed, storeVars, cancelled, mpc, ttl, lease,
                   lastAuth, status, mseen, eseen, opVars>>

\* The 1s timer of the sealed loop fires.
RenewSealedTick(s, g) ==
    /\ epc[s][g] = "sealedWait"
    /\ epc' = [epc EXCEPT ![s][g] = "top"]
    /\ timer' = [timer EXCEPT ![s][g] = 0]
    /\ UNCHANGED <<kv, vaultSealed, storeVars, cancelled, mpc, ttl, lease,
                   lastAuth, status, mseen, eseen, opVars>>

\* if ttl == 0: the login, and on success SetToken and the renewal timer.
RenewLogin(s, g) ==
    /\ epc[s][g] = "ready"
    /\ ttl[s][g] = 0
    /\ \E a \in LoginAnswers :
          LET r == authenticate(a) IN
          IF r.err
          THEN /\ ttl' = [ttl EXCEPT ![s][g] = 0]
               /\ lease' = [lease EXCEPT ![s][g] = 0]
               /\ timer' = [timer EXCEPT ![s][g] = RetryDelay(retry[s])]
               /\ epc' = [epc EXCEPT ![s][g] = "retryWait"]
               /\ lastAuth' = [lastAuth EXCEPT ![s][g] = "login_err"]
               /\ token' = token
          ELSE /\ token' = [token EXCEPT ![s] = r.token]
               /\ ttl' = [ttl EXCEPT ![s][g] = r.ttl]
               /\ lease' = [lease EXCEPT ![s][g] = r.ttl]
               /\ timer' = [timer EXCEPT ![s][g] = RenewalDelay(r.ttl)]
               /\ epc' = [epc EXCEPT ![s][g] = "leaseWait"]
               /\ lastAuth' = [lastAuth EXCEPT ![s][g] =
                                   IF a.kind = "nil" THEN "login_nil" ELSE "login_ok"]
    /\ eseen' = [eseen EXCEPT ![s][g] = cancelled[s][g]]
    /\ UNCHANGED <<kv, vaultSealed, client, sealed, retry, apc, authHist, started,
                   cancelled, mpc, status, mseen, opVars>>

\* ttl != 0 on entry: the renewal timer is armed for the lease of Authenticate.
RenewArm(s, g) ==
    /\ epc[s][g] = "ready"
    /\ ttl[s][g] # 0
    /\ timer' = [timer EXCEPT ![s][g] = RenewalDelay(ttl[s][g])]
    /\ epc' = [epc EXCEPT ![s][g] = "leaseWait"]
    /\ UNCHANGED <<kv, vaultSealed, storeVars, cancelled, mpc, ttl, lease,
                   lastAuth, status, mseen, eseen, opVars>>

\* The retry timer fires: continue.
RenewRetryTick(s, g) ==
    /\ epc[s][g] = "retryWait"
    /\ epc' = [epc EXCEPT ![s][g] = "top"]
    /\ timer' = [timer EXCEPT ![s][g] = 0]
    /\ UNCHANGED <<kv, vaultSealed, storeVars, cancelled, mpc, ttl, lease,
                   lastAuth, status, mseen, eseen, opVars>>

\* The increment RenewSelf is called with: int(ttl.Seconds()) of the function's
\* variable ttl.
RenewIncrement(s, g) == Seconds(ttl[s][g])

\* The renewal timer fires: RenewSelf with the seconds of ttl.  A renewed lease
\* re-arms the timer with the TTL of the answer, which is a variable of the
\* inner loop's body: the function's ttl keeps its value.  Every other answer
\* leaves the inner loop and sets ttl = 0.
RenewSelf(s, g) ==
    /\ epc[s][g] = "leaseWait"
    /\ \E a \in RenewAnswers :
          /\ lastAuth' = [lastAuth EXCEPT ![s][g] = RenewOutcome(a)]
          /\ IF ~RenewBreaks(a)
             THEN /\ timer' = [timer EXCEPT ![s][g] = RenewalDelay(TokenTTL(a.secs))]
                  /\ lease' = [lease EXCEPT ![s][g] = TokenTTL(a.secs)]
                  /\ UNCHANGED <<epc, ttl>>
             ELSE /\ timer' = [timer EXCEPT ![s][g] = 0]
                  /\ lease' = [lease EXCEPT ![s][g] = 0]
                  /\ ttl' = [ttl EXCEPT ![s][g] = 0]
                  /\ epc' = [epc EXCEPT ![s][g] = "top"]
    /\ eseen' = [eseen EXCEPT ![s][g] = cancelled[s][g]]
    /\ UNCHANGED <<kv, vaultSealed, storeVars, cancelled, mpc, status, mseen, opVars>>

\* RenewStop without the ctx.Done() case in the select of the retry wait.
RenewStopNotAtRetry(s, g) ==
    /\ epc[s][g] \in {"sealedWait", "leaseWait"}
    /\ cancelled[s][g]
    /\ epc' = [epc EXCEPT ![s][g] = "done"]
    /\ timer' = [timer EXCEPT ![s][g] = 0]
    /\ UNCHANGED <<kv, vaultSealed, storeVars, cancelled, mpc, ttl, lease,
                   lastAuth, status, mseen, eseen, opVars>>

\* select: <-ctx.Done() at any of the three waits: timer.Stop() and return.
RenewStop(s, g) ==
    /\ epc[s][g] \in {"sealedWait", "retryWait", "leaseWait"}
    /\ cancelled[s][g]
    /\ epc' = [epc EXCEPT ![s][g] = "done"]
    /\ timer' = [timer EXCEPT ![s][g] = 0]
    /\ UNCHANGED <<kv, vaultSealed, storeVars, cancelled, mpc, ttl, lease,
                   lastAuth, status, mseen, eseen, opVars>>

\* -------------------------------------------------------- specifications

KeyOperation(s, K, V) ==
    \/ Get(s, K)
    \/ Create(s, K, V)
    \/ Delete(s, K)
    \/ GetRead(s)
    \/ CreateRead(s)
    \/ CreateWrite(s)
    \/ DeleteWrite(s)

Authenticate(s) ==
    \/ AuthConnect(s)
    \/ AuthHealth(s)
    \/ AuthLogin(s)

checkStatus(s, g) ==
    \/ CheckStatusPoll(s, g)
    \/ CheckStatusTick(s, g)
    \/ CheckStatusStop(s, g)

renewAuthToken(s, g) ==
    \/ RenewCheckSealed(s, g)
    \/ RenewSealedTick(s, g)
    \/ RenewLogin(s, g)
    \/ RenewArm(s, g)
    \/ RenewRetryTick(s, g)
    \/ RenewSelf(s, g)
    \/ RenewStop(s, g)

\* One store from construction on: Authenticate (called until it returns nil),
\* its goroutines, its caller, cancellation, and the Vault server being sealed
\* and unsealed.
Next ==
    \/ \E s \in Main : started[s] = 0 /\ Authenticate(s)
    \/ \E s \in Main : KeyOperation(s, {"k1"}, {"v1"})
    \/ \E s \in Main, g \in Gens : checkStatus(s, g)
    \/ \E s \in Main, g \in Gens : renewAuthToken(s, g)
    \/ \E s \in Main, g \in Gens : Cancel(s, g)
    \/ VaultSealChange

Spec == Init /\ [][Next]_vars

\* Two stores whose Authenticate calls have returned nil against an unsealed
\* Vault, and their callers working on the shared location.
InitKV ==
    /\ kv = [p \in Paths |-> Absent]
    /\ vaultSealed = FALSE
    /\ client = [s \in Stores |-> TRUE]
    /\ sealed = [s \in Stores |-> FALSE]
    /\ token = [s \in Stores |-> "t1"]
    /\ retry = [s \in Stores |-> 0]
    /\ apc = [s \in Stores |-> "idle"]
    /\ authHist = [s \in Stores |-> "ok"]
    /\ started = [s \in Stores |-> 1]
    /\ cancelled = [s \in Stores |-> [g \in Gens |-> FALSE]]
    /\ mpc = [s \in Stores |-> [g \in Gens |-> "poll"]]
    /\ epc = [s \in Stores |-> [g \in Gens |-> "top"]]
    /\ ttl = [s \in Stores |-> [g \in Gens |-> TokenTTL(MaxLease)]]
    /\ timer = [s \in Stores |-> [g \in Gens |-> 0]]
    /\ lease = [s \in Stores |-> [g \in Gens |-> TokenTTL(MaxLease)]]
    /\ lastAuth = [s \in Stores |-> [g \in Gens |-> "none"]]
    /\ status = [s \in Stores |-> [g \in Gens |-> "none"]]
    /\ mseen = [s \in Stores |-> [g \in Gens |-> FALSE]]
    /\ eseen = [s \in Stores |-> [g \in Gens |-> FALSE]]
    /\ pc = [s \in Stores |-> "idle"]
    /\ cur = [s \in Stores |-> NoneOp]
    /\ res = [s \in Stores |-> NoRes]
    /\ resp = [s \in Stores |-> "none"]
    /\ calls = [s \in Stores |-> 0]
    /\ raced = [s \in Stores |-> FALSE]
    /\ created = [s \in Stores |-> NoCreated]

NextKV == \E s \in Stores : KeyOperation(s, Keys, Values)

SpecKV == InitKV /\ [][NextKV]_vars

\* One store and its goroutines without a caller of the key operations.
NextBackground ==
    \/ \E s \in Main : started[s] = 0 /\ Authenticate(s)
    \/ \E s \in Main, g \in Gens : checkStatus(s, g)
    \/ \E s \in Main, g \in Gens : renewAuthToken(s, g)
    \/ \E s \in Main, g \in Gens : Cancel(s, g)
    \/ VaultSealChange

SpecBackground == Init /\ [][NextBackground]_vars

\* The goroutines are scheduled and their calls return: a goroutine that can
\* take a step eventually takes one.  A select whose ctx.Done() case is ready
\* again and again eventually takes that case (Go picks among the ready cases
\* at random).  Nothing is assumed of the Vault server, of the callers of
\* Authenticate or of the cancellation.
Fairness ==
    \A s \in Main, g \in Gens :
       /\ WF_vars(checkStatus(s, g))
       /\ WF_vars(renewAuthToken(s, g))
       /\ SF_vars(CheckStatusStop(s, g))
       /\ SF_vars(RenewStop(s, g))

FairSpec == Init /\ [][NextBackground]_vars /\ Fairness

\* One store whose Authenticate is called again after it has returned nil:
\* every call that returns nil starts another pair of goroutines.  No context
\* is cancelled.
NextReauth ==
    \/ \E s \in Main : Authenticate(s)
    \/ \E s \in Main, g \in Gens :
          \/ CheckStatusPoll(s, g)
          \/ CheckStatusTick(s, g)
    \/ \E s \in Main, g \in Gens :
          \/ RenewCheckSealed(s, g)
          \/ RenewSealedTick(s, g)
          \/ RenewLogin(s, g)
          \/ RenewArm(s, g)
          \/ RenewRetryTick(s, g)
          \/ RenewSelf(s, g)

SpecReauth == Init /\ [][NextReauth]_vars

\* ----------------------------------------------------------------- claims

\* The step in which the caller of store s enters a key operation.
Invoked(s) ==
    /\ pc[s] = "idle"
    /\ <<pc[s], cur[s], res[s], resp[s], calls[s]>>
          # <<pc'[s], cur'[s], res'[s], resp'[s], calls'[s]>>

\* The call entered in this step returns at once with error e and no request.
FailsFast(s, e) ==
    /\ pc'[s] = "idle"
    /\ res'[s] = Ret(e, "")
    /\ calls'[s] = 0
    /\ kv' = kv

\* The step in which a Create of store s writes and returns nil.
CreateWrote(s) == pc[s] = "cwrite" /\ pc'[s] = "idle" /\ res'[s].err = "nil"

\* C1 as stated: in every interleaving, also of Create calls of several stores
\* on one location, a Create writes only when no entry exists at the path at
\* the moment of the write.
C1_NeverOverwrites ==
    [][\A s \in Stores :
          CreateWrote(s) => ~kv[Path(s, cur[s].key)].present]_vars

\* C1 amended: a Create writes only when no entry existed at the path when it
\* read it; it overwrites an entry only if another write reached the path
\* between its read and its write.
C1_OverwritesOnlyWhenRaced ==
    [][\A s \in Stores :
          (CreateWrote(s) /\ ~raced[s]) => ~kv[Path(s, cur[s].key)].present]_vars

\* Two stores called Create on one key: one wrote, the other got KeyExists.
C1_Witness ==
    \E s, u \in Stores :
       /\ s # u
       /\ pc[s] = "idle" /\ cur[s].op = "Create" /\ res[s].err = "nil"
       /\ pc[u] = "idle" /\ cur[u].op = "Create" /\ res[u].err = "KeyExists"
       /\ cur[u].key = cur[s].key
       /\ kv[Path(s, cur[s].key)] = Entry(cur[s].key, cur[s].val)

\* C2: a key operation entered while s.sealed is true returns the Sealed error
\* and issues no read, write or delete, whatever the goroutines are doing.
C2_SealedFailsFast ==
    [][\A s \in Stores : (Invoked(s) /\ sealed[s]) => FailsFast(s, "Sealed")]_vars

\* A call returned Sealed, without a request, with the goroutines running.
C2_Witness ==
    \E s \in Stores :
       /\ pc[s] = "idle" /\ res[s].err = "Sealed" /\ calls[s] = 0
       /\ sealed[s]
       /\ \E g \in Gens : mpc[s][g] \in {"poll", "wait"} /\ epc[s][g] = "sealedWait"

\* C3 as stated: on a store none of whose Authenticate calls has returned nil
\* (never called, or every call returned an error) a key operation fails with
\* NotConnected without a request.
C3_NotConnectedUntilAuthenticated ==
    [][\A s \in Stores :
          (Invoked(s) /\ apc[s] = "idle" /\ authHist[s] # "ok")
             => FailsFast(s, "NotConnected")]_vars

\* C3, what the code does guarantee: on a store whose Authenticate was never
\* called, or failed every time before the client was created, a key operation
\* fails with NotConnected without a request.
C3_NotConnectedWithoutClient ==
    [][\A s \in Stores :
          (Invoked(s) /\ authHist[s] \in {"never", "config"})
             => FailsFast(s, "NotConnected")]_vars

\* A call returned NotConnected on a store whose Authenticate had failed.
C3_Witness ==
    \E s \in Stores :
       /\ pc[s] = "idle" /\ res[s].err = "NotConnected" /\ calls[s] = 0
       /\ authHist[s] = "config"

\* renewAuthToken of store s holds no lease: the login was skipped, a renewal
\* failed or a login failed, and no login has succeeded since.
NeedsAuth(s) ==
    \E g \in Gens :
       /\ epc[s][g] \in {"top", "sealedWait", "ready", "retryWait"}
       /\ ttl[s][g] = 0

\* C4 as stated: while renewAuthToken needs to authenticate, every key operation
\* fails fast without a request.
C4_FailsFastWithoutLease ==
    [][\A s \in Stores :
          (Invoked(s) /\ NeedsAuth(s))
             => (pc'[s] = "idle" /\ calls'[s] = 0 /\ res'[s].err \notin {"none", "nil"})]_vars

\* C4 amended: while renewAuthToken needs to authenticate, a key operation
\* fails fast (Sealed, no request) exactly when s.sealed is true at the call;
\* otherwise it goes on to its request with the token the client holds.
C4_FailsFastOnlyWhenSealed ==
    [][\A s \in Stores :
          (Invoked(s) /\ NeedsAuth(s))
             => IF sealed[s]
                THEN FailsFast(s, "Sealed")
                ELSE pc'[s] \in {"get", "cread", "delete"} /\ res'[s] = NoRes]_vars

\* A key operation is on its way to Vault while the store never had a token and
\* renewAuthToken waits to retry a failed login.
C4_Witness ==
    \E s \in Stores :
       /\ NeedsAuth(s)
       /\ ~sealed[s]
       /\ token[s] = NoToken
       /\ pc[s] \in {"get", "cread", "delete"}
       /\ \E g \in Gens : epc[s][g] = "retryWait"

\* C5: after a Create(k, v) that returned nil, with nothing written to or
\* deleted at the path since, a Create(k, w) whose read does not fail returns
\* KeyExists, issues no write, and the stored value stays v.
C5_SecondCreateKeyExists ==
    [][\A s \in Stores :
          ( /\ pc[s] = "cread" /\ calls'[s] = calls[s] + 1
            /\ created[s].key = cur[s].key /\ created[s].clean
            /\ resp'[s] # "error" )
          => ( /\ res'[s] = Ret("KeyExists", "")
               /\ pc'[s] = "idle"
               /\ calls'[s] = 1
               /\ kv' = kv
               /\ kv[Path(s, cur[s].key)] = Entry(cur[s].key, created[s].val) )]_vars

\* A second Create with another value returned KeyExists; the first value is stored.
C5_Witness ==
    \E s \in Stores :
       /\ pc[s] = "idle" /\ cur[s].op = "Create" /\ res[s].err = "KeyExists"
       /\ calls[s] = 1
       /\ created[s].key = cur[s].key /\ created[s].clean
       /\ created[s].val # cur[s].val
       /\ kv[Path(s, cur[s].key)] = Entry(cur[s].key, created[s].val)

\* The step in which a Get of store s returns, its read not having failed.
GetReturned(s) == pc[s] = "get" /\ pc'[s] = "idle" /\ resp'[s] # "error"

\* C6 as stated: after a Create(k, v1) that returned nil, with no Delete(k)
\* since, a Get(k) whose read does not fail returns v1.
C6_GetReturnsCreated ==
    [][\A s \in Stores :
          (GetReturned(s) /\ created[s].key = cur[s].key)
             => res'[s] = Ret("nil", created[s].val)]_vars

\* C6 amended: after a Create(k, v1) that returned nil, with no Delete(k) and
\* no write of another Create(k, _) since, a Get(k) whose read does not fail
\* returns v1.
C6_GetReturnsCreatedUnlessOverwritten ==
    [][\A s \in Stores :
          (GetReturned(s) /\ created[s].key = cur[s].key /\ created[s].clean)
             => res'[s] = Ret("nil", created[s].val)]_vars

\* A Get returned the value the caller had created.
C6_Witness ==
    \E s \in Stores :
       /\ pc[s] = "idle" /\ cur[s].op = "Get" /\ resp[s] = "secret"
       /\ created[s].key = cur[s].key /\ created[s].clean
       /\ res[s] = Ret("nil", created[s].val)

\* C7: a Get of a key with no entry (never created, or deleted), whose read
\* does not fail, returns KeyNotFound: neither a transport error nor a value.
C7_AbsentIsKeyNotFound ==
    [][\A s \in Stores :
          (GetReturned(s) /\ ~kv[Path(s, cur[s].key)].present)
             => res'[s] = Ret("KeyNotFound", "")]_vars

\* A Get returned KeyNotFound after one request, the path being empty.
C7_Witness ==
    \E s \in Stores :
       /\ pc[s] = "idle" /\ cur[s].op = "Get" /\ res[s].err = "KeyNotFound"
       /\ calls[s] = 1 /\ resp[s] = "nil"
       /\ ~kv[Path(s, cur[s].key)].present

\* C8: a Delete whose request does not fail returns nil whether or not the key
\* exists and leaves no entry at the path; on a path without entry it changes
\* nothing, so a second Delete gives the result and the state of the first.
C8_DeleteIdempotent ==
    [][\A s \in Stores :
          (pc[s] = "delete" /\ pc'[s] = "idle" /\ resp'[s] # "error")
             => ( /\ res'[s] = Ret("nil", "")
                  /\ ~kv'[Path(s, cur[s].key)].present
                  /\ \A p \in Paths : p # Path(s, cur[s].key) => kv'[p] = kv[p]
                  /\ ~kv[Path(s, cur[s].key)].present => kv' = kv )]_vars

\* A Delete returned nil and the path is empty.
C8_Witness ==
    \E s \in Stores :
       /\ pc[s] = "idle" /\ cur[s].op = "Delete" /\ res[s] = Ret("nil", "")
       /\ calls[s] = 1
       /\ ~kv[Path(s, cur[s].key)].present

RenewFailures == {"renew_err", "renew_nil", "renew_norenew", "renew_zero"}
Renewals == RenewFailures \cup {"renew_ok"}
Logins == {"login_ok", "login_nil", "login_err"}

\* C9: after a RenewSelf that failed, returned no secret, a token that is not
\* renewable or a TTL of zero, renewAuthToken has left the renewal wait with
\* ttl = 0, and its next authentication call is a Login.
C9_LoginAfterFailedRenewal ==
    [][\A s \in Stores, g \in Gens :
          /\ lastAuth'[s][g] \in RenewFailures
                => (epc'[s][g] # "leaseWait" /\ ttl'[s][g] = 0)
          /\ (lastAuth[s][g] \in RenewFailures /\ lastAuth'[s][g] # lastAuth[s][g])
                => lastAuth'[s][g] \in Logins]_vars

\* RenewSelf answered "not renewable" and the goroutine stands before the login.
C9_Witness ==
    \E s \in Stores, g \in Gens :
       /\ lastAuth[s][g] = "renew_norenew"
       /\ epc[s][g] = "ready"
       /\ ttl[s][g] = 0

\* C10: whenever renewAuthToken waits to renew, its timer is armed with half
\* the TTL of the lease it holds (of Authenticate, of a Login, or of the last
\* renewal), and the authentication call that ends the wait is a RenewSelf.
C10_RenewsAtHalfTTL ==
    [][\A s \in Stores, g \in Gens :
          /\ epc'[s][g] = "leaseWait" => timer'[s][g] = lease'[s][g] \div 2
          /\ (epc[s][g] = "leaseWait" /\ lastAuth'[s][g] # lastAuth[s][g])
                => lastAuth'[s][g] \in Renewals]_vars

\* A renewal returned a TTL other than the login's and the timer waits half of it.
C10_Witness ==
    \E s \in Stores, g \in Gens :
       /\ epc[s][g] = "leaseWait"
       /\ lastAuth[s][g] = "renew_ok"
       /\ lease[s][g] # ttl[s][g]
       /\ lease[s][g] > 0
       /\ timer[s][g] = lease[s][g] \div 2

\* Both goroutines of pair g of store s have returned.
Exited(s, g) == mpc[s][g] = "done" /\ epc[s][g] = "done"

\* C11: once the context is cancelled, checkStatus and renewAuthToken both
\* return, from whichever wait they are in and whatever the Vault server
\* answers; a goroutine that has returned stays so and issues no Health, Login
\* or RenewSelf, and once both have returned s.sealed and the token are no
\* longer written.
C11_ExitAfterCancel ==
    /\ \A s \in Main, g \in Gens : cancelled[s][g] ~> Exited(s, g)
    /\ [][\A s \in Main, g \in Gens :
            /\ mpc[s][g] = "done" => (mpc'[s][g] = "done" /\ mseen'[s][g] = mseen[s][g])
            /\ epc[s][g] = "done"
                  => ( /\ epc'[s][g] = "done"
                       /\ lastAuth'[s][g] = lastAuth[s][g]
                       /\ eseen'[s][g] = eseen[s][g] )
            /\ (started[s] = g /\ Exited(s, g))
                  => (sealed'[s] = sealed[s] /\ token'[s] = token[s])]_vars

\* Both goroutines have returned after a cancellation that reached
\* renewAuthToken after a failed login, in one of its waits.
C11_Witness ==
    \E s \in Main, g \in Gens :
       /\ cancelled[s][g]
       /\ Exited(s, g)
       /\ lastAuth[s][g] = "login_err"
       /\ ~eseen[s][g]

\* C12: every RenewSelf is called with the seconds of the TTL of the lease
\* renewAuthToken holds: after a renewal that returned a new TTL, with that TTL.
\* (Stated for renewal loops entered with a TTL that is not zero.)
C12_RenewSelfPassesLeaseTTL ==
    [][\A s \in Stores, g \in Gens :
          (RenewSelf(s, g) /\ ttl[s][g] # 0)
             => RenewIncrement(s, g) = Seconds(lease[s][g])]_vars

\* What holds instead: every RenewSelf of one renewal loop is called with the
\* seconds of the TTL the loop was entered with (of Authenticate or of the
\* last Login), however many renewals have returned another TTL since.
C12_RenewSelfPassesLoginTTL ==
    [][\A s \in Stores, g \in Gens :
          (epc[s][g] = "leaseWait" /\ epc'[s][g] = "leaseWait")
             => (ttl'[s][g] = ttl[s][g] /\ RenewIncrement(s, g)' = RenewIncrement(s, g))]_vars

\* What holds of the logins: renewAuthToken reads s.sealed at the top of its
\* outer loop, waits 1s and reads again while it reads true, and goes on to a
\* Login (or to arming the renewal timer) only after reading false.
C13_LoginWaitsWhileSealed ==
    [][\A s \in Stores, g \in Gens :
          /\ (epc[s][g] = "top" /\ epc'[s][g] # "top")
                => epc'[s][g] = (IF sealed[s] THEN "sealedWait" ELSE "ready")
          /\ (epc[s][g] = "sealedWait" /\ epc'[s][g] # "sealedWait")
                => epc'[s][g] \in {"top", "done"}]_vars

\* C13: while s.sealed is true renewAuthToken begins neither a Login nor a
\* RenewSelf: a wait that ends with s.sealed true is followed by the 1s poll
\* of s.sealed, whether the goroutine waited to log in or to renew.
C13_SuspendedWhileSealed ==
    [][\A s \in Stores, g \in Gens :
          /\ (epc[s][g] = "top" /\ epc'[s][g] # "top" /\ sealed[s])
                => epc'[s][g] = "sealedWait"
          /\ RenewSelf(s, g) => ~sealed[s]]_vars

\* C14: a Login of renewAuthToken that returns an error leaves ttl = 0 and is
\* followed by a wait of the configured retry delay (5s if none is
\* configured); the wait ends by the timer, back to the top of the loop, or by
\* cancellation; until a Login returns without error the goroutine holds no
\* lease and calls no RenewSelf, so its next call is a Login again, however
\* many logins have failed.
C14_RetriesLoginAfterDelay ==
    [][\A s \in Stores, g \in Gens :
          /\ (RenewLogin(s, g) /\ lastAuth'[s][g] = "login_err")
                => ( /\ epc'[s][g] = "retryWait"
                     /\ timer'[s][g] = (IF retry[s] = 0 THEN 5 * Second ELSE retry[s])
                     /\ ttl'[s][g] = 0
                     /\ token'[s] = token[s] )
          /\ (epc[s][g] = "retryWait" /\ epc'[s][g] # "retryWait")
                => (epc'[s][g] = "top" \/ (epc'[s][g] = "done" /\ cancelled[s][g]))
          /\ lastAuth[s][g] = "login_err"
                => ( /\ ttl[s][g] = 0
                     /\ epc[s][g] \in {"retryWait", "top", "sealedWait", "ready", "done"}
                     /\ ~RenewSelf(s, g)
                     /\ lastAuth'[s][g] \in Logins )]_vars

\* After a failed login and the retry wait, on a store with no retry delay
\* configured, renewAuthToken stands before the next login.
C14_Witness ==
    \E s \in Stores, g \in Gens :
       /\ lastAuth[s][g] = "login_err"
       /\ epc[s][g] = "ready"
       /\ ttl[s][g] = 0
       /\ retry[s] = 0
       /\ ~cancelled[s][g]

\* C15: renewAuthToken waits on the renewal timer, and so calls RenewSelf, only
\* with a TTL that is not zero: the wait is never of length zero and the
\* increment passed is never zero.
C15_LeaseOnlyWithTTL ==
    \A s \in Stores, g \in Gens :
       epc[s][g] = "leaseWait"
          => (ttl[s][g] # 0 /\ timer[s][g] # 0 /\ RenewIncrement(s, g) # 0)

\* What holds of the start: with the TTL zero that Authenticate passes when it
\* skipped the login or got no lease, renewAuthToken arms no renewal timer
\* before its own first Login.
C15_StartsWithLoginWhenZero ==
    [][\A s \in Stores, g \in Gens :
          (epc[s][g] = "ready" /\ ttl[s][g] = 0 /\ epc'[s][g] # "ready")
             => RenewLogin(s, g)]_vars

\* C16 for both goroutines: neither begins a Health, Login or RenewSelf call
\* if the context was already cancelled when its previous call returned.
\* (Violated also by a select that takes an expired timer although ctx.Done()
\* is ready.)
C16_CancelCheckedBetweenCalls ==
    [][\A s \in Stores, g \in Gens :
          /\ CheckStatusPoll(s, g) => ~mseen[s][g]
          /\ (RenewLogin(s, g) \/ RenewSelf(s, g)) => ~eseen[s][g]]_vars

\* C16 for the Login that follows a RenewSelf: renewAuthToken begins no Login
\* if the context was already cancelled when the RenewSelf before it returned.
C16_CancelCheckedBeforeRelogin ==
    [][\A s \in Stores, g \in Gens :
          (RenewLogin(s, g) /\ lastAuth[s][g] \in Renewals) => ~eseen[s][g]]_vars

\* C17: a Health call of checkStatus that succeeds sets s.sealed to the status
\* the Vault server reports, one that fails leaves s.sealed as it was; either
\* way the step changes nothing else of the store or of Vault (client, token,
\* entries, the other goroutine), and checkStatus goes on to its wait, which
\* ends in the next Health call or, only if the context is cancelled, in return.
C17_MonitorWritesOnlySealed ==
    [][\A s \in Stores, g \in Gens :
          /\ CheckStatusPoll(s, g)
                => ( /\ status'[s][g] \in {"sealed", "unsealed"}
                           => ( /\ sealed'[s] = (status'[s][g] = "sealed")
                                /\ sealed'[s] = vaultSealed )
                     /\ status'[s][g] = "error" => sealed'[s] = sealed[s]
                     /\ \A u \in Stores \ {s} : sealed'[u] = sealed[u]
                     /\ token' = token /\ kv' = kv /\ client' = client
                     /\ epc' = epc /\ ttl' = ttl /\ pc' = pc /\ res' = res
                     /\ mpc'[s][g] = "wait" )
          /\ (mpc[s][g] = "wait" /\ mpc'[s][g] # "wait")
                => (mpc'[s][g] = "poll" \/ (mpc'[s][g] = "done" /\ cancelled[s][g]))]_vars

\* A failed Health call left s.sealed true and the token in place, and
\* checkStatus waits for its next tick.
C17_Witness ==
    \E s \in Stores, g \in Gens :
       /\ mpc[s][g] = "wait"
       /\ status[s][g] = "error"
       /\ sealed[s]
       /\ token[s] # NoToken
       /\ ~cancelled[s][g]

\* renewAuthToken of pair g runs and holds no lease: its next call is a Login.
NeedsLogin(s, g) ==
    /\ epc[s][g] \in {"top", "sealedWait", "ready", "retryWait"}
    /\ ttl[s][g] = 0

\* renewAuthToken of pair g has logged in, published the token and waits to
\* renew a lease with a TTL that is not zero.
LoggedIn(s, g) ==
    /\ epc[s][g] = "leaseWait"
    /\ lastAuth[s][g] = "login_ok"
    /\ lease[s][g] > 0
    /\ token[s] \in Tokens

\* From some point on every Health call of checkStatus is answered "unsealed".
HealthSucceeds ==
    <>[][\A s \in Main, g \in Gens :
            CheckStatusPoll(s, g) => status'[s][g] = "unsealed"]_vars

\* From some point on every Login of renewAuthToken is answered with a token
\* and a TTL that is not zero.
LoginSucceeds ==
    <>[][\A s \in Main, g \in Gens :
            RenewLogin(s, g) => (lastAuth'[s][g] = "login_ok" /\ lease'[s][g] > 0)]_vars

NeverCancelled == \A s \in Main, g \in Gens : [](~cancelled[s][g])

\* C18: if the context is never cancelled and from some point on the health
\* queries answer "unsealed" and the logins succeed with a TTL that is not
\* zero, then from some point on renewAuthToken, whenever it holds no lease
\* (started without one, paused by s.sealed, after failed renewals or logins),
\* gets to log in, publish the token and wait to renew: it does not stay
\* forever in the sealed poll or in the retry loop.
C18_EventuallyLoggedIn ==
    (NeverCancelled /\ HealthSucceeds /\ LoginSucceeds)
       => \A s \in Main, g \in Gens : <>[](NeedsLogin(s, g) => <>LoggedIn(s, g))

\* renewAuthToken has logged in by itself, published the token and waits to
\* renew, the store reading Vault as unsealed.
C18_Witness ==
    \E s \in Main, g \in Gens :
       /\ LoggedIn(s, g)
       /\ status[s][g] = "unsealed"
       /\ ~sealed[s]
       /\ ~cancelled[s][g]

\* C19: each store runs one checkStatus and one renewAuthToken, started once,
\* however often Authenticate is called; once they run, s.sealed is written by
\* that checkStatus alone and the token by that renewAuthToken alone.
C19_SingleWriter ==
    [][\A s \in Stores :
          /\ started'[s] <= 1
          /\ (started[s] >= 1 /\ sealed'[s] # sealed[s]) => CheckStatusPoll(s, 1)
          /\ (started[s] >= 1 /\ token'[s] # token[s]) => RenewLogin(s, 1)]_vars

\* The step is a Login (of Authenticate or of renewAuthToken) of store s.
LoginStep(s) == AuthLogin(s) \/ \E g \in Gens : RenewLogin(s, g)

\* C20: the token of the client changes only in a Login that succeeded, and
\* only to the token that Login returned, which is not empty: a Login that
\* fails or returns no secret, every RenewSelf, every health query and every
\* Get, Create and Delete leave it as it is, and a token once set is never
\* replaced by the empty one.
C20_TokenOnlyBySuccessfulLogin ==
    [][\A s \in Stores :
          token'[s] # token[s] => (LoginStep(s) /\ token'[s] \in Tokens)]_vars

\* What holds: the token changes only in a Login that returned no error; no
\* RenewSelf, health query, key operation or failed Login changes it.
C20_TokenOnlyByLogin ==
    [][\A s \in Stores :
          token'[s] # token[s]
             => ( /\ LoginStep(s)
                  /\ \A g \in Gens : RenewLogin(s, g) => lastAuth'[s][g] # "login_err" )]_vars

====
